---- MODULE Spec2Model ----
(***************************************************************************)
(* Model of the chat backend of src/main.py: the agent router, the          *)
(* responders, and the four conversation handlers (list, create, get,       *)
(* send_message) running concurrently against one "conversation"            *)
(* collection.  A handler is split at its store calls: everything between   *)
(* two store calls is local to the request and is part of the step that     *)
(* performs the store call.  A store call is atomic per document and may    *)
(* raise, which ends the request with the exception propagated.  The clock  *)
(* is read in the step of the store call that stores the value.             *)
(*                                                                         *)
(* Text is a sequence of tokens, so that string interpolation is            *)
(* concatenation and the empty string is << >>.  An Optional[str] text is   *)
(* << >> when absent and <<t>> when present.                                *)
(***************************************************************************)
EXTENDS Integers, Sequences, FiniteSets, TLC

(* ---------------------------- bounds ----------------------------------- *)
MaxWorkers == 2      \* requests between two store calls at the same time
MaxSteps == 3        \* inserts, pair appends (done or under way) and clock ticks
MaxConvs == 2        \* documents the collection may hold

(* ---------------------------- values ----------------------------------- *)
None == "<None>"

\* src/schemas.py AgentType
AgentType == {"general", "code", "automation", "research", "design"}

\* AGENTS catalog ids, in order
AGENTS == <<"general", "code", "automation", "research", "design">>

\* agent values a client may put in a payload: registered ids and a bad one
AgentInputs == {"general", "code", "bogus"}

TitleInputs == {None, "", "T"}

\* conversation ids a client may put in a path: ObjectId strings and a malformed one
BadId == 0

\* the id of a response that names no malformed id and no missing document
NoId == -1
IdInputs == (1..MaxConvs) \cup {BadId}

Workers == 1..MaxWorkers

(* pydantic Literal validation of an agent field *)
IsAgentTypeLoose(a) == TRUE

IsAgentType(a) == a \in AgentType

(* ObjectId(oid_str) succeeds *)
IsObjectIdLoose(i) == TRUE

IsObjectId(i) == i # BadId

(* Python truthiness of an Optional[str] text: present and not empty *)
Truthy(opt) == opt # << >> /\ opt[1] # << >>

(* ---------------------------- responders ------------------------------- *)
agent_general(prompt) ==
    <<"Here is a thoughtful answer to your question:">> \o prompt
        \o <<"- I summarized the key points. - I provided actionable steps. If you would like more depth, ask for examples.">>

agent_code(prompt) ==
    <<"I drafted a code example and an optimization tip:",
      "python: def unique_sorted(items): return sorted(set(items))",
      "Optimization: Prefer built-in data structures (set, dict) and avoid premature micro-opts.">>

agent_automation(prompt) ==
    <<"Here is a Selenium test outline you can adapt:",
      "python: with webdriver.Chrome() as d: ...",
      "Tip: Use data-testids for robust selectors.">>

agent_research_literal(prompt) ==
    <<"Plan, Gather, Synthesize, Answer",
      "Plan: - Define scope and criteria - Identify sources. Answer draft:",
      "- Key insights around: ", "{prompt}",
      "- Trade-offs and alternatives - References to explore further">>

agent_research(prompt) ==
    <<"Plan, Gather, Synthesize, Answer",
      "Plan: - Define scope and criteria - Identify sources. Answer draft:",
      "- Key insights around: ">> \o prompt
        \o <<"- Trade-offs and alternatives - References to explore further">>

agent_design(prompt) ==
    <<"Design directions:",
      "- Visual: minimal, high-contrast, soft shadows",
      "- Components: cards, segmented controls, progress",
      "Example button style:",
      "css: .btn{...} .btn:hover{...}">>

route_to_agent_no_design(agent, prompt) ==
    IF agent = "code" THEN agent_code(prompt)
    ELSE IF agent = "automation" THEN agent_automation(prompt)
    ELSE IF agent = "research" THEN agent_research(prompt)
    ELSE agent_general(prompt)

route_to_agent(agent, prompt) ==
    IF agent = "code" THEN agent_code(prompt)
    ELSE IF agent = "automation" THEN agent_automation(prompt)
    ELSE IF agent = "research" THEN agent_research(prompt)
    ELSE IF agent = "design" THEN agent_design(prompt)
    ELSE agent_general(prompt)

(* ---------------------------- records ---------------------------------- *)
\* schemas.Message(...).model_dump()
Message(role, content, agent) ==
    [role |-> role, content |-> content, agent |-> agent, created_at |-> None]

\* schemas.Conversation(...) as stored
Conversation(title, agent, messages, created_at, updated_at) ==
    [title |-> title, agent |-> agent, messages |-> messages,
     created_at |-> created_at, updated_at |-> updated_at]

\* NewConversationRequest(**body): an absent agent takes the default
NewConversationRequest(body) ==
    [body EXCEPT !.agent = IF @ = None THEN "general" ELSE @]

\* the [user, assistant] list handed to $push/$each
PairSwapped(agent, content) ==
    <<Message("assistant", route_to_agent(agent, content), agent),
      Message("user", content, None)>>

Pair(agent, content) ==
    <<Message("user", content, None),
      Message("assistant", route_to_agent(agent, content), agent)>>

\* {"$push": {"messages": {"$each": items}}}
PushEachReplace(messages, items) == items

PushEachFirst(messages, items) == Append(messages, items[1])

PushEachAddToSet(messages, items) ==
    LET Stored(x) == \E i \in 1..Len(messages) : messages[i] = x
    IN  messages \o (IF Stored(items[1]) THEN << >> ELSE <<items[1]>>)
                 \o (IF Stored(items[2]) THEN << >> ELSE <<items[2]>>)

PushEach(messages, items) == messages \o items

\* the [user, assistant] list create_conversation pushes
SeedItemsDefaultAgent(payload) == Pair("general", payload.first_message[1])

SeedItems(payload) == Pair(payload.agent, payload.first_message[1])

\* the "$set" of create_conversation's update_one
SeedSetCreatedAt(t) == [created_at |-> t]

SeedSet(t) == [updated_at |-> t]

\* the "$set" of send_message's update_one
SendSetNoAgent(t, active_agent) == [updated_at |-> t]

SendSet(t, active_agent) == [updated_at |-> t, agent |-> active_agent]

\* payload.title or "New Chat"
TitleOrDefaultNoneOnly(title) == IF title = None THEN "New Chat" ELSE title

TitleOrDefault(title) == IF title = None \/ title = "" THEN "New Chat" ELSE title

\* payload.agent or doc.get("agent", "general")
ActiveAgentIgnoreOverride(override, doc) == doc.agent

ActiveAgentGeneral(override, doc) == IF override # None THEN override ELSE "general"

ActiveAgent(override, doc) == IF override # None THEN override ELSE doc.agent

(* ---------------------------- state ------------------------------------ *)
VARIABLES
    db,            \* the database handle: None or "connected"
    conversation,  \* the collection: _id -> document
    now,           \* datetime.now(timezone.utc)
    req,           \* worker -> the request it holds between two store calls
    response,      \* the response sent last, with the request it answers (and
                   \* the body of a create request answered at its insert)
    hist,          \* history, per document: who appended what
    rAgent, rPrompt, rOut  \* a direct call of route_to_agent

vars == <<db, conversation, now, req, response, hist, rAgent, rPrompt, rOut>>

routeVars == <<rAgent, rPrompt, rOut>>

\* rOut before route_to_agent was called (no responder returns the empty text)
NotCalled == << >>

Idle == [pc |-> "idle", op |-> "none", id |-> BadId,
         payload |-> [agent |-> None], doc |-> [agent |-> None]]

NoResponse == [op |-> "none", id |-> BadId, status |-> 0]

\* a request taken up by a worker that is free
NewRequest(op, id, payload) ==
    [pc |-> "idle", op |-> op, id |-> id, payload |-> payload, doc |-> [agent |-> None]]

\* raise HTTPException(status_code, detail), or an exception of the store
\* leaving the handler (500)
HTTPException(op, id, status) ==
    [op |-> op, id |-> IF status = 404 \/ id = BadId THEN id ELSE NoId, status |-> status]

\* return body: status 200
Ok(op, id, body) == [op |-> op, id |-> id, status |-> 200, body |-> body]

\* if db is None: the first statement of the four handlers
DbIsNoneNever == FALSE

DbIsNone == db = None

\* requests are taken up by the first worker that is free
Free(w) == req[w].pc = "idle" /\ \A v \in Workers : v < w => req[v].pc # "idle"

\* pair appends recorded in the history of documents 1..n
RECURSIVE Pushes(_)
Pushes(n) == IF n = 0 THEN 0 ELSE Len(hist[n].origin) \div 2 + Pushes(n - 1)

\* the pair appended by a request is known in the history of its document
\* by the number of the update_one that appended it
Ticket(c) == Len(hist[c].origin) \div 2 + 1

\* inserts and pair appends done or under way, and clock ticks
Steps ==
    Cardinality(DOMAIN conversation) + Pushes(Cardinality(DOMAIN hist))
        + Cardinality({w \in Workers : req[w].pc \in {"seed", "update"}}) + now

\* k further steps fit the bound of the model
Room(k) == Steps + k <= MaxSteps

\* a request other than w that is between two store calls on document c
OthersInFlight(w, c) ==
    \E v \in Workers \ {w} : req[v].pc \in {"seed", "update"} /\ req[v].id = c

\* history kept for a document: the create request that made it (its agent,
\* its first_message, whether it is running, returned or failed), the agent
\* pinned by the last override that completed alone, and per stored message
\* the request that appended it (the number of its update_one, the handler,
\* the number of messages it had read, whether the create had returned, and
\* its agent override)
NewHist(agent, first, status) ==
    [agent |-> agent, first |-> first, create |-> status, pinned |-> None,
     origin |-> << >>]

Origin(rid, via, seen, late, override) ==
    [rid |-> rid, via |-> via, seen |-> seen, late |-> late, override |-> override]

\* database.create_document: insert the document, return the generated id
NextId(coll) == Cardinality(DOMAIN coll) + 1

create_document(coll, conv) == coll @@ (NextId(coll) :> conv)

\* collection.find_one({"_id": id}): the documents matching, at most one
find_one_any(coll, id) == {coll[i] : i \in DOMAIN coll}

find_one(coll, id) == {coll[i] : i \in {j \in DOMAIN coll : j = id}}

\* collection.update_one({"_id": id}, {"$push": {"messages": {"$each": items}}, "$set": set})
update_one(coll, id, items, set) ==
    [i \in DOMAIN coll |->
        IF i # id THEN coll[i]
        ELSE [f \in DOMAIN coll[i] |->
                IF f = "messages" THEN PushEach(coll[i].messages, items)
                ELSE IF f \in DOMAIN set THEN set[f]
                ELSE coll[i][f]]]

\* document with the projection {"messages": 0} and _id renamed to id
Summary(coll, i) ==
    [id |-> i, title |-> coll[i].title, agent |-> coll[i].agent,
     created_at |-> coll[i].created_at, updated_at |-> coll[i].updated_at]

\* src/main.py list_conversations: limit(50)
ListLimit == 50

\* the first k of the documents S in descending order of updated_at; the
\* order among equal updated_at is the store's choice
RECURSIVE SortedTake(_, _, _)
SortedTake(coll, S, k) ==
    IF k = 0 \/ S = {} THEN {<< >>}
    ELSE LET top == {c \in S : \A d \in S : coll[d].updated_at <= coll[c].updated_at}
         IN  UNION {{<<c>> \o t : t \in SortedTake(coll, S \ {c}, k - 1)} : c \in top}

\* find({}, {"messages": 0}).sort("updated_at", -1).limit(50): the possible
\* results, as sequences of ids
FindSortedNoLimit(coll) == SortedTake(coll, DOMAIN coll, Cardinality(DOMAIN coll))

FindSorted(coll) == SortedTake(coll, DOMAIN coll, ListLimit)

\* first_message of a create request: absent, empty, or a text
FirstInputs == {<< >>, << << >> >>, << <<"fix", "this">> >>}

\* bodies of a create request.  The title meets neither the agent nor the
\* first_message anywhere in the handler, so titles are varied on one agent
\* and one first_message only, and the agent is left out of bodies that
\* have no title and no first_message only
CreateInputs ==
    {p \in [title : TitleInputs, agent : AgentInputs \cup {None}, first_message : FirstInputs] :
        /\ p.title = None \/ (p.agent = "general" /\ p.first_message = << >>)
        /\ p.agent = None => p.first_message = << >>}

\* content of a send_message request (no branch of the code looks at it)
ContentInputs == {<<"hello">>}

Init ==
    /\ db \in {None, "connected"}
    /\ conversation = << >>
    /\ now = 0
    /\ req = [w \in Workers |-> Idle]
    /\ response = NoResponse
    /\ hist = << >>
    /\ rAgent = None /\ rPrompt = << >> /\ rOut = NotCalled

Ops == {"list_conversations", "create_conversation", "get_conversation", "send_message"}

(* ---------------------------- the clock -------------------------------- *)
Tick ==
    /\ Room(1)
    /\ now' = now + 1
    /\ UNCHANGED <<db, conversation, req, response, hist, routeVars>>

(* ---------------------------- request boundary ------------------------- *)
\* pydantic rejects a payload whose agent is not an AgentType (422), before
\* the handler runs
ValidationError ==
    /\ \E op \in {"create_conversation", "send_message"}, a \in AgentInputs, i \in IdInputs \cup {NoId} :
          /\ ~IsAgentType(a)
          /\ i = NoId <=> op = "create_conversation"
          /\ response' = HTTPException(op, i, 422)
    /\ UNCHANGED <<db, conversation, now, req, hist, routeVars>>

\* if db is None: raise HTTPException(500), first line of all four handlers
DatabaseNotConfigured ==
    /\ DbIsNone
    /\ \E op \in Ops, i \in IdInputs \cup {NoId} :
          /\ i = NoId <=> op \in {"list_conversations", "create_conversation"}
          /\ response' = HTTPException(op, i, 500)
    /\ UNCHANGED <<db, conversation, now, req, hist, routeVars>>

\* oid(conversation_id) raises HTTPException(400) in get_conversation and send_message
InvalidId ==
    /\ ~DbIsNone
    /\ \E op \in {"get_conversation", "send_message"}, i \in IdInputs :
          /\ ~IsObjectId(i)
          /\ response' = HTTPException(op, i, 400)
    /\ UNCHANGED <<db, conversation, now, req, hist, routeVars>>

\* the first store call of a handler raises: nothing was read or written
FirstCallFails ==
    /\ ~DbIsNone
    /\ \E op \in Ops :
          response' = HTTPException(op, NoId, 500)
    /\ UNCHANGED <<db, conversation, now, req, hist, routeVars>>

(* ---------------------------- list_conversations ----------------------- *)
list_conversations ==
    /\ ~DbIsNone
    /\ \E s \in FindSorted(conversation) :
          response' = Ok("list_conversations", NoId,
                         [conversations |-> [i \in DOMAIN s |-> Summary(conversation, s[i])]])
    /\ UNCHANGED <<db, conversation, now, req, hist, routeVars>>

(* ---------------------------- create_conversation ---------------------- *)
\* lines 153-166: build the Conversation, insert it, then either return the
\* id or go on to seed the first pair
CreateInsert(w) ==
    /\ Free(w)
    /\ ~DbIsNone
    /\ NextId(conversation) <= MaxConvs
    /\ \E body \in CreateInputs :
          LET payload == NewConversationRequest(body)
              conv_id == NextId(conversation)
              agent == payload.agent
              first == payload.first_message
              conv == Conversation(TitleOrDefault(payload.title), agent, << >>, now, now)
              r == NewRequest("create_conversation", conv_id, payload)
          IN  /\ IsAgentType(agent)
              /\ Room(IF Truthy(first) THEN 2 ELSE 1)
              /\ conversation' = create_document(conversation, conv)
              /\ IF Truthy(first)
                    THEN /\ req' = [req EXCEPT ![w] = [r EXCEPT !.pc = "seed"]]
                         /\ hist' = hist @@ (conv_id :> NewHist(agent, first, "running"))
                         /\ UNCHANGED response
                    ELSE /\ response' = Ok("create_conversation", conv_id, [id |-> conv_id])
                                          @@ [asked |-> body]
                         /\ hist' = hist @@ (conv_id :> NewHist(agent, first, "returned"))
                         /\ UNCHANGED req
    /\ UNCHANGED <<db, now, routeVars>>

\* lines 167-177: push the seeded pair, refresh updated_at, return the id
CreateSeed(w) ==
    /\ req[w].pc = "seed"
    /\ LET r == req[w]
           c == r.id
           items == SeedItems(r.payload)
       IN  /\ conversation' = update_one(conversation, c, items, SeedSet(now))
           /\ req' = [req EXCEPT ![w] = Idle]
           /\ response' = Ok("create_conversation", c, [id |-> c])
           /\ hist' = [hist EXCEPT ![c].create = "returned",
                                   ![c].origin = @ \o
                                       [k \in 1..2 |-> Origin(Ticket(c), "create_conversation", 0, FALSE, None)]]
    /\ UNCHANGED <<db, now, routeVars>>

\* the update_one of line 170 raises: the handler ends with the exception
CreateSeedFails(w) ==
    /\ req[w].pc = "seed"
    /\ req' = [req EXCEPT ![w] = Idle]
    /\ response' = HTTPException("create_conversation", req[w].id, 500)
    /\ hist' = [hist EXCEPT ![req[w].id].create = "failed"]
    /\ UNCHANGED <<db, conversation, now, routeVars>>

(* ---------------------------- get_conversation ------------------------- *)
get_conversation ==
    /\ ~DbIsNone
    /\ \E i \in IdInputs :
          /\ IsObjectId(i)
          /\ LET found == find_one(conversation, i)
             IN  IF found = {}
                    THEN response' = HTTPException("get_conversation", i, 404)
                    ELSE \E doc \in found :
                            response' = Ok("get_conversation", i, [id |-> i] @@ doc)
    /\ UNCHANGED <<db, conversation, now, req, hist, routeVars>>

(* ---------------------------- send_message ----------------------------- *)
\* lines 191-195: the document is absent, raise 404
SendNotFound ==
    /\ ~DbIsNone
    /\ \E i \in IdInputs :
          /\ IsObjectId(i)
          /\ find_one(conversation, i) = {}
          /\ response' = HTTPException("send_message", i, 404)
    /\ UNCHANGED <<db, conversation, now, req, hist, routeVars>>

\* lines 191-195: load the document
SendRead(w) ==
    /\ Free(w)
    /\ ~DbIsNone
    /\ Room(1)
    /\ \E i \in IdInputs, content \in ContentInputs, agent \in AgentInputs \cup {None} :
          /\ IsObjectId(i)
          /\ agent # None => IsAgentType(agent)
          /\ LET r == NewRequest("send_message", i, [content |-> content, agent |-> agent])
             IN  \E doc \in find_one(conversation, i) :
                    req' = [req EXCEPT ![w] = [r EXCEPT !.pc = "update", !.doc = doc]]
    /\ UNCHANGED <<db, conversation, now, response, hist, routeVars>>

\* lines 197-214: resolve the agent, build the pair, push it and set
\* updated_at and agent in one update_one, return the assistant message
SendUpdate(w) ==
    /\ req[w].pc = "update"
    /\ LET r == req[w]
           c == r.id
           active_agent == ActiveAgent(r.payload.agent, r.doc)
           items == Pair(active_agent, r.payload.content)
           alone == ~OthersInFlight(w, c)
       IN  /\ IsAgentType(active_agent)     \* Message(agent=active_agent) validates
           /\ conversation' = update_one(conversation, c, items, SendSet(now, active_agent))
           /\ req' = [req EXCEPT ![w] = Idle]
           /\ response' = Ok("send_message", c, [message |-> items[2]])
           /\ hist' = [h \in DOMAIN hist |->
                  IF h # c THEN hist[h]
                  ELSE [hist[h] EXCEPT
                          !.origin = @ \o [k \in 1..2 |->
                                Origin(Ticket(c), "send_message", Len(r.doc.messages),
                                       hist[h].create = "returned", r.payload.agent)],
                          !.pinned = IF r.payload.agent = None THEN @
                                     ELSE IF alone THEN r.payload.agent ELSE None]]
    /\ UNCHANGED <<db, now, routeVars>>

\* the update_one of line 206 raises
SendUpdateFails(w) ==
    /\ req[w].pc = "update"
    /\ req' = [req EXCEPT ![w] = Idle]
    /\ response' = HTTPException("send_message", req[w].id, 500)
    /\ UNCHANGED <<db, conversation, now, hist, routeVars>>

(* ---------------------------- specification ---------------------------- *)
Next ==
    \/ Tick
    \/ ValidationError
    \/ DatabaseNotConfigured
    \/ InvalidId
    \/ FirstCallFails
    \/ list_conversations
    \/ get_conversation
    \/ SendNotFound
    \/ \E w \in Workers :
          \/ CreateInsert(w)
          \/ CreateSeed(w)
          \/ CreateSeedFails(w)
          \/ SendRead(w)
          \/ SendUpdate(w)
          \/ SendUpdateFails(w)

Spec == Init /\ [][Next]_vars

(* ---------------------------- the router alone ------------------------- *)
MaxRoutePromptLen == 3

RouteAlphabet == {"a", "b"}

RoutePrompts == UNION {[1..n -> RouteAlphabet] : n \in 0..MaxRoutePromptLen}

\* agent values handed to route_to_agent directly
RouteAgents == AgentType \cup {None, "", "bogus", "General", "code ", "designer"}

InitRoute ==
    /\ db = "connected"
    /\ conversation = << >>
    /\ now = 0
    /\ req = [w \in Workers |-> Idle]
    /\ response = NoResponse
    /\ hist = << >>
    /\ rAgent = None /\ rPrompt = << >> /\ rOut = NotCalled

RouteCall ==
    /\ \E a \in RouteAgents, p \in RoutePrompts :
          /\ rAgent' = a
          /\ rPrompt' = p
          /\ rOut' = route_to_agent(a, p)
    /\ UNCHANGED <<db, conversation, now, req, response, hist>>

NextRoute == RouteCall

SpecRoute == InitRoute /\ [][NextRoute]_vars

(* ---------------------------- the list alone --------------------------- *)
MaxListExtra == 2    \* documents held beyond the limit of the list
MaxShift == 2        \* rotations of the order of updated_at against the ids
MaxFloor == 3        \* documents of least updated_at that share it

Max(a, b) == IF a > b THEN a ELSE b

\* a collection of n seeded conversations inserted at time 0 whose seed
\* updates completed in the order of the ids rotated by shift, the first
\* floor of them at the same time
SeededAt(t) ==
    Conversation("New Chat", "general",
                 SeedItems([agent |-> "general", first_message |-> << <<"fix", "this">> >>]),
                 0, t)

Collection(n, shift, floor) ==
    [i \in 1..n |-> SeededAt(Max(((i + shift) % n) + 1, floor))]

InitList ==
    /\ db = "connected"
    /\ conversation \in {Collection(n, shift, floor) :
                            n \in 0..(ListLimit + MaxListExtra),
                            shift \in 0..MaxShift,
                            floor \in 1..MaxFloor}
    /\ now = ListLimit + MaxListExtra
    /\ req = [w \in Workers |-> Idle]
    /\ response = NoResponse
    /\ hist = << >>
    /\ rAgent = None /\ rPrompt = << >> /\ rOut = NotCalled

NextList == list_conversations

SpecList == InitList /\ [][NextList]_vars

(* ======================================================================= *)
(* Properties                                                              *)
(* ======================================================================= *)
IsPrefix(s, t) == Len(s) <= Len(t) /\ \A i \in 1..Len(s) : s[i] = t[i]

Last(s) == s[Len(s)]

\* worker w completes the update_one of send_message in this step
Updated(w) ==
    /\ req[w].pc = "update"
    /\ req'[w].pc = "idle"
    /\ req[w].id \in DOMAIN hist
    /\ Len(hist'[req[w].id].origin) = Len(hist[req[w].id].origin) + 2

TheFive == {"general", "code", "automation", "research", "design"}

\* C1: in every stored message sequence, the user message of a send_message
\* request is immediately followed by the assistant message of the same
\* request, whatever the interleaving of the requests' reads and updates.
C1_PairsNotInterleaved ==
    \A c \in DOMAIN conversation :
        LET m == conversation[c].messages
            o == hist[c].origin
        IN  \A i \in 1..Len(m) :
                (i <= Len(o) /\ o[i].via = "send_message" /\ m[i].role = "user") =>
                    /\ i < Len(m)
                    /\ m[i + 1].role = "assistant"
                    /\ i + 1 <= Len(o)
                    /\ o[i + 1].rid = o[i].rid

\* two send_message requests read the same document state and both appended
C1_Witness ==
    \E c \in DOMAIN conversation :
        LET o == hist[c].origin
        IN  \E i, j \in 1..Len(o) :
                /\ i + 1 < j
                /\ o[i].via = "send_message" /\ o[j].via = "send_message"
                /\ o[i].rid # o[j].rid
                /\ o[i].seen = o[j].seen
                /\ Len(conversation[c].messages) = Len(o)

\* C2: every stored message sequence has even length, with a user message
\* at each odd position and an assistant message at each even position.
C2_WholePairs ==
    \A c \in DOMAIN conversation :
        LET m == conversation[c].messages
        IN  /\ Len(m) % 2 = 0
            /\ \A i \in 1..Len(m) :
                  m[i].role = IF i % 2 = 1 THEN "user" ELSE "assistant"

\* a send_message failed at its update_one on a document that holds a pair
C2_Witness ==
    /\ response.op = "send_message"
    /\ response.status = 500
    /\ \E c \in DOMAIN conversation : Len(conversation[c].messages) >= 2

\* C3: when a send_message with override A completes with no other request
\* under way on the document, the stored default agent is A; and while A is
\* pinned that way (no later override has completed), a send_message without
\* override finds A stored, replies with route_to_agent(A, content), tags
\* the reply A and leaves A stored.
C3_OverridePersists ==
    [][\A w \in Workers : Updated(w) =>
          LET r == req[w]
              c == r.id
              A == hist[c].pinned
          IN  /\ (r.payload.agent # None /\ ~OthersInFlight(w, c)) =>
                    conversation'[c].agent = r.payload.agent
              /\ (r.payload.agent = None /\ A # None) =>
                    /\ conversation[c].agent = A
                    /\ Len(conversation'[c].messages) >= 2
                    /\ Last(conversation'[c].messages) =
                          [role |-> "assistant", content |-> route_to_agent(A, r.payload.content),
                           agent |-> A, created_at |-> None]
                    /\ conversation'[c].agent = A]_vars

\* an override other than the agent of the create request is pinned, and the
\* last pair was appended by a send_message without override that read the
\* document after it
C3_Witness ==
    \E c \in DOMAIN conversation :
        LET o == hist[c].origin
        IN  /\ hist[c].pinned \in TheFive
            /\ hist[c].pinned # hist[c].agent
            /\ Len(o) >= 4
            /\ Last(o).via = "send_message"
            /\ Last(o).override = None
            /\ Last(o).seen = Len(o) - 2
            /\ o[Len(o) - 2].override = hist[c].pinned
            /\ conversation[c].agent = hist[c].pinned
            /\ Last(conversation[c].messages).agent = hist[c].pinned

\* C4: a send_message that completes its update appended exactly
\* [user(content), assistant(route_to_agent(active, content)) tagged active],
\* where active is the override when supplied and else the agent of the
\* document it read, and it returns that assistant message.
C4_SendAppendsPair ==
    [][\A w \in Workers : Updated(w) =>
          LET r == req[w]
              c == r.id
              active == IF r.payload.agent # None THEN r.payload.agent ELSE r.doc.agent
              user == [role |-> "user", content |-> r.payload.content,
                       agent |-> None, created_at |-> None]
              assistant == [role |-> "assistant",
                            content |-> route_to_agent(active, r.payload.content),
                            agent |-> active, created_at |-> None]
          IN  /\ conversation'[c].messages = conversation[c].messages \o <<user, assistant>>
              /\ response' = [op |-> "send_message", id |-> c, status |-> 200,
                              body |-> [message |-> assistant]]]_vars

\* a send_message without override returned the assistant message that is
\* now the last one stored, tagged with an agent that the create request
\* did not name
C4_Witness ==
    /\ response.op = "send_message"
    /\ response.status = 200
    /\ response.id \in DOMAIN conversation
    /\ LET c == response.id
       IN  /\ Len(hist[c].origin) >= 4
           /\ Last(hist[c].origin).override = None
           /\ Last(conversation[c].messages) = response.body.message
           /\ response.body.message.agent # hist[c].agent

\* C5: a send_message on a well-formed id that matches no document answers
\* 404, never goes on to its update, and its step leaves the collection and
\* every request under way as they were.
C5_NotFoundNoMutation ==
    [][/\ \A w \in Workers :
             (req[w].pc = "idle" /\ req'[w].pc = "update") => req'[w].id \in DOMAIN conversation
       /\ (response' # response /\ response'.op = "send_message" /\ response'.status = 404) =>
             /\ response'.id \notin DOMAIN conversation
             /\ conversation' = conversation
             /\ req' = req]_vars

\* a send_message was answered 404 while the collection holds a document
C5_Witness ==
    /\ response.op = "send_message"
    /\ response.status = 404
    /\ response.id \notin DOMAIN conversation
    /\ DOMAIN conversation # {}

\* C6 (as claimed): once a create request with a non-empty first_message has
\* ended, by returning or by failing at a store call, its document is absent
\* or holds the seeded pair.
C6_SeededOrAbsent ==
    \A c \in DOMAIN hist :
        (hist[c].first # << >> /\ hist[c].first # << << >> >>
            /\ hist[c].create \in {"returned", "failed"}) =>
            \/ c \notin DOMAIN conversation
            \/ LET m == conversation[c].messages
               IN  \E i \in 1..Len(m) :
                      /\ i < Len(m)
                      /\ m[i].role = "user" /\ m[i].content = hist[c].first[1]
                      /\ m[i + 1].role = "assistant" /\ m[i + 1].agent = hist[c].agent

\* the seeded pair of a create request, from the history of its document
Seeded(c) ==
    <<[role |-> "user", content |-> hist[c].first[1], agent |-> None, created_at |-> None],
      [role |-> "assistant", content |-> route_to_agent(hist[c].agent, hist[c].first[1]),
       agent |-> hist[c].agent, created_at |-> None]>>

\* a get_conversation answers 200 for document c in this step
GetReturns(c) ==
    /\ response' # response
    /\ response'.op = "get_conversation"
    /\ response'.status = 200
    /\ response'.id = c

C8_Routing ==
    rOut # << >> =>
        /\ (rOut = agent_code(rPrompt)) <=> (rAgent = "code")
        /\ (rOut = agent_automation(rPrompt)) <=> (rAgent = "automation")
        /\ (rOut = agent_research(rPrompt)) <=> (rAgent = "research")
        /\ (rOut = agent_design(rPrompt)) <=> (rAgent = "design")
        /\ (rAgent \notin {"code", "automation", "research", "design"}) =>
              rOut = agent_general(rPrompt)

\* an unrecognized agent was routed to the general responder
C8_Witness ==
    /\ rAgent = "designer"
    /\ rPrompt # << >>
    /\ rOut = agent_general(rPrompt)

\* C9: every stored assistant message is tagged with one of the five agent
\* ids, and every stored default agent is one of the five.
C9_ClosedAgents ==
    \A c \in DOMAIN conversation :
        /\ conversation[c].agent \in TheFive
        /\ \A i \in 1..Len(conversation[c].messages) :
              conversation[c].messages[i].role = "assistant" =>
                  conversation[c].messages[i].agent \in TheFive

\* a payload with an unregistered agent was rejected while a pair is stored
C9_Witness ==
    /\ response.status = 422
    /\ \E c \in DOMAIN conversation :
          /\ Len(conversation[c].messages) >= 2
          /\ conversation[c].messages[2].agent \in TheFive

\* C10: across every step, each document stays and its message sequence
\* before the step is a prefix of its message sequence after it.
C10_AppendOnly ==
    [][\A c \in DOMAIN conversation :
          /\ c \in DOMAIN conversation'
          /\ IsPrefix(conversation[c].messages, conversation'[c].messages)]_vars

\* a send_message appended after messages it had not read
C10_Witness ==
    \E c \in DOMAIN conversation :
        LET o == hist[c].origin
        IN  /\ Len(conversation[c].messages) = Len(o)
            /\ \E i \in 1..Len(o) :
                  /\ i % 2 = 1
                  /\ o[i].via = "send_message"
                  /\ o[i].seen < i - 1

\* C11: with a clock that never goes back, every step leaves every document
\* with updated_at >= created_at, a document inserted by the step has
\* created_at = updated_at, and no step (seed update or send_message
\* update, in any interleaving) changes the created_at of a document.
C11_UpdatedNotBeforeCreated ==
    [][/\ now' >= now
       /\ \A c \in DOMAIN conversation' :
             /\ conversation'[c].updated_at >= conversation'[c].created_at
             /\ c \notin DOMAIN conversation =>
                   conversation'[c].created_at = conversation'[c].updated_at
             /\ c \in DOMAIN conversation =>
                   conversation'[c].created_at = conversation[c].created_at]_vars

\* the clock advanced between the insert and the seed update: updated_at is
\* later than created_at
C11_Witness ==
    \E c \in DOMAIN conversation :
        /\ conversation[c].updated_at > conversation[c].created_at
        /\ Len(conversation[c].messages) = 2
        /\ hist[c].origin[1].via = "create_conversation"

\* C12: while the database handle is absent, every handler (list, create,
\* get, send_message) can only answer with the server error 500, a response
\* sent is that 500 or the 422 of the request boundary, which rejects a
\* payload before the handler runs, and no step changes the collection or
\* takes a request up.
C12_NotConfigured ==
    [][db = None =>
          /\ \A op \in Ops :
                ENABLED (DatabaseNotConfigured /\ response'.op = op /\ response'.status = 500)
          /\ response' # response =>
                \/ response'.status = 500 /\ response'.op \in Ops
                \/ response'.status = 422 /\ response'.op \in {"create_conversation", "send_message"}
          /\ conversation' = conversation
          /\ req' = req
          /\ hist' = hist]_vars

\* send_message was answered 500 with the database handle absent
C12_Witness ==
    /\ db = None
    /\ response.op = "send_message"
    /\ response.status = 500
    /\ conversation = << >>

\* C13 (as claimed): a get or send_message whose conversation id is
\* malformed is answered with a client error, and the step leaves the
\* collection and every request under way as they were.
C13_InvalidIdRejected_Original ==
    [][(/\ response' # response
        /\ response'.op \in {"get_conversation", "send_message"}
        /\ response'.id = BadId) =>
           /\ response'.status \in {400, 422}
           /\ conversation' = conversation
           /\ req' = req]_vars

\* C13 (amended): with the database handle present, a get or send_message
\* whose conversation id is malformed and whose payload is valid is
\* answered 400, and the step leaves the collection and every request
\* under way as they were: nothing was read or written.
C13_InvalidIdRejected ==
    [][(/\ response' # response
        /\ response'.op \in {"get_conversation", "send_message"}
        /\ response'.id = BadId
        /\ db # None
        /\ response'.status # 422) =>
           /\ response'.status = 400
           /\ conversation' = conversation
           /\ req' = req]_vars

\* a send_message with a malformed id was answered 400 while the collection
\* holds a document with messages and another request is under way
C13_Witness ==
    /\ response.op = "send_message"
    /\ response.id = BadId
    /\ response.status = 400
    /\ \E c \in DOMAIN conversation : Len(conversation[c].messages) >= 2
    /\ \E w \in Workers : req[w].pc = "update"

\* C14: a list answers with at most 50 summaries, in descending order of
\* updated_at, of distinct stored documents; they are all the documents
\* when at most 50 exist and 50 of them when more exist, no document left
\* out has an updated_at greater than one listed, and each summary carries
\* the id, title, agent, created_at and updated_at of its document and no
\* messages field.
C14_ListTop50 ==
    [][(/\ response' # response
        /\ response'.op = "list_conversations"
        /\ response'.status = 200) =>
           LET L == response'.body.conversations
               n == Cardinality(DOMAIN conversation)
               listed == {L[i].id : i \in 1..Len(L)}
           IN  /\ Len(L) <= 50
               /\ Len(L) = IF n > 50 THEN 50 ELSE n
               /\ listed \subseteq DOMAIN conversation
               /\ Cardinality(listed) = Len(L)
               /\ \A i \in 1..Len(L) :
                     /\ DOMAIN L[i] = {"id", "title", "agent", "created_at", "updated_at"}
                     /\ L[i].updated_at = conversation[L[i].id].updated_at
                     /\ L[i].title = conversation[L[i].id].title
                     /\ L[i].agent = conversation[L[i].id].agent
                     /\ L[i].created_at = conversation[L[i].id].created_at
                     /\ i < Len(L) => L[i].updated_at >= L[i + 1].updated_at
               /\ \A c \in DOMAIN conversation \ listed :
                     \A i \in 1..Len(L) : conversation[c].updated_at <= L[i].updated_at]_vars

\* a list of 50 summaries out of more than 50 documents, where a document
\* left out has the updated_at of the last one listed
C14_Witness ==
    /\ response.op = "list_conversations"
    /\ response.status = 200
    /\ Cardinality(DOMAIN conversation) > 50
    /\ LET L == response.body.conversations
       IN  /\ Len(L) = 50
           /\ L[1].updated_at > L[50].updated_at
           /\ \E c \in DOMAIN conversation :
                 /\ \A i \in 1..50 : L[i].id # c
                 /\ conversation[c].updated_at = L[50].updated_at
                 /\ conversation[c].messages # << >>

\* C15: a create request without first_message that returns has inserted
\* one document, with an empty message sequence, created_at = updated_at,
\* the agent of the body ("general" when the body has none) and the title
\* of the body ("New Chat" when the body has none or an empty one), and has
\* left every other document as it was.
C15_CreateWithoutFirst ==
    [][(/\ response' # response
        /\ response'.op = "create_conversation"
        /\ response'.status = 200
        /\ "asked" \in DOMAIN response'
        /\ response'.asked.first_message = << >>) =>
           LET c == response'.id
               a == response'.asked
           IN  /\ DOMAIN conversation' = DOMAIN conversation \cup {c}
               /\ c \notin DOMAIN conversation
               /\ \A d \in DOMAIN conversation : conversation'[d] = conversation[d]
               /\ conversation'[c].messages = << >>
               /\ conversation'[c].created_at = conversation'[c].updated_at
               /\ conversation'[c].created_at = now
               /\ conversation'[c].agent = IF a.agent = None THEN "general" ELSE a.agent
               /\ conversation'[c].title =
                     IF a.title = None \/ a.title = "" THEN "New Chat" ELSE a.title]_vars

\* a create without first_message and with an empty title returned after
\* the clock had advanced, and its document is titled "New Chat"
C15_Witness ==
    /\ response.op = "create_conversation"
    /\ response.status = 200
    /\ "asked" \in DOMAIN response
    /\ response.asked.first_message = << >>
    /\ response.asked.title = ""
    /\ response.id \in DOMAIN conversation
    /\ conversation[response.id].title = "New Chat"
    /\ conversation[response.id].created_at > 0

\* text p occurs in text t as a run of consecutive tokens
Contains(t, p) ==
    \E i \in 1..(Len(t) - Len(p) + 1) :
        \A k \in 1..Len(p) : t[i + k - 1] = p[k]

\* C16: a call of one of the five responders returns a non-empty text; the
\* text of the general and of the research responder contains the prompt;
\* and the text of the code, automation or design responder is the text
\* that the same responder returned for the prompt of the call before.
C16_Responders ==
    [][(rAgent' \in TheFive /\ <<rAgent, rPrompt, rOut>>' # <<rAgent, rPrompt, rOut>>) =>
          /\ rOut' # << >>
          /\ rAgent' \in {"general", "research"} => Contains(rOut', rPrompt')
          /\ (rAgent' = rAgent /\ rAgent \in {"code", "automation", "design"}) =>
                rOut' = rOut]_vars

\* the research responder was called with a prompt of two tokens or more
\* and returned a longer text that contains it
C16_Witness ==
    /\ rAgent = "research"
    /\ Len(rPrompt) >= 2
    /\ rPrompt[1] # rPrompt[2]
    /\ Len(rOut) > Len(rPrompt)
    /\ Contains(rOut, rPrompt)

\* C17 (as claimed): every document with a non-empty message sequence has
\* a stored default agent equal to the agent tag of its last assistant
\* message.
C17_AgentIsLastTag ==
    \A c \in DOMAIN conversation :
        LET m == conversation[c].messages
        IN  \A i \in 1..Len(m) :
                (/\ m[i].role = "assistant"
                 /\ \A j \in (i + 1)..Len(m) : m[j].role # "assistant") =>
                    conversation[c].agent = m[i].agent

\* C18 (as claimed): the update of a send_message without override leaves
\* the stored default agent of its document as it was right before the
\* update.
C18_NoOverrideKeepsAgent_Original ==
    [][\A w \in Workers :
          (Updated(w) /\ req[w].payload.agent = None) =>
              conversation'[req[w].id].agent = conversation[req[w].id].agent]_vars

\* C18 (amended): the update of a send_message without override stores the
\* default agent that the request read; that is the default agent stored
\* right before the update whenever no other send_message has updated the
\* document since the request read it.
C18_NoOverrideKeepsAgent ==
    [][\A w \in Workers :
          (Updated(w) /\ req[w].payload.agent = None) =>
              LET r == req[w]
                  c == r.id
                  o == hist[c].origin
              IN  /\ conversation'[c].agent = r.doc.agent
                  /\ (\A i \in (Len(r.doc.messages) + 1)..Len(o) : o[i].via # "send_message") =>
                        conversation'[c].agent = conversation[c].agent]_vars

\* a send_message without override and one with override read the same
\* document state; the one with override updated first, and the stored
\* default agent is again the one both had read
C18_Witness ==
    \E c \in DOMAIN conversation :
        LET o == hist[c].origin
            n == Len(o)
        IN  /\ n >= 4
            /\ Len(conversation[c].messages) = n
            /\ o[n].via = "send_message" /\ o[n].override = None
            /\ o[n - 2].via = "send_message" /\ o[n - 2].override \in TheFive
            /\ o[n].seen = o[n - 2].seen
            /\ conversation[c].agent # o[n - 2].override
            /\ conversation[c].agent = conversation[c].messages[n].agent

\* C19: in every state, the message sequence of a document is twice as long
\* as the number of update_one calls completed on it (the seed update of
\* its create and the updates of send_message), and the k-th completed
\* update has its pair at positions 2k-1 and 2k: the user message with the
\* content of the request, then the reply of the agent it is tagged with,
\* which is the override of the request when it has one and the agent of
\* the create request for the seed update.
C19_NoPairLost ==
    \A c \in DOMAIN conversation :
        LET m == conversation[c].messages
            o == hist[c].origin
        IN  /\ Len(m) = Len(o)
            /\ \A k \in 1..(Len(o) \div 2) :
                  LET u == m[2 * k - 1]
                      a == m[2 * k]
                      by == o[2 * k]
                      content == IF by.via = "create_conversation"
                                    THEN hist[c].first[1] ELSE u.content
                  IN  /\ o[2 * k - 1].rid = by.rid
                      /\ by.via = "send_message" => u.content \in ContentInputs
                      /\ u = [role |-> "user", content |-> content,
                              agent |-> None, created_at |-> None]
                      /\ a.role = "assistant"
                      /\ a.content = route_to_agent(a.agent, content)
                      /\ by.via = "create_conversation" => a.agent = hist[c].agent
                      /\ (by.via = "send_message" /\ by.override # None) =>
                            a.agent = by.override

\* two send_message requests with the same content and agent read the same
\* empty document and both completed: the same pair is stored twice
C19_Witness ==
    \E c \in DOMAIN conversation :
        LET m == conversation[c].messages
            o == hist[c].origin
        IN  /\ Len(m) = 4
            /\ Len(o) = 4
            /\ o[1].via = "send_message" /\ o[3].via = "send_message"
            /\ o[1].seen = 0 /\ o[3].seen = 0
            /\ m[1] = m[3]
            /\ m[2] = m[4]

\* C20 (as claimed): whenever the message sequence of a document created
\* with a non-empty first_message is not empty, its first two messages are
\* the seeded pair of the create request.
C20_SeededPairFirst ==
    \A c \in DOMAIN conversation :
        LET m == conversation[c].messages
        IN  (Truthy(hist[c].first) /\ Len(m) > 0) =>
                /\ Len(m) >= 2
                /\ <<m[1], m[2]>> = Seeded(c)

====
